---- MODULE Spec2Model ----
(***************************************************************************)
(* RouteController (src/src/route-controller.ts, lines 1-304): a queue of  *)
(* suspended Playwright routes, each paired with a single-use promise      *)
(* resolver.  The model follows the JavaScript run-to-completion           *)
(* semantics: a synchronous method body is one atomic step; resolving the  *)
(* promise a handle() call awaits queues a microtask that runs the rest of *)
(* handle(); timer callbacks are macrotasks and run only when the          *)
(* microtask queue is empty.                                               *)
(***************************************************************************)
EXTENDS Integers, Sequences, FiniteSets, TLC

\* ---------------------------------------------------------------- bounds
MaxRequests == 2     \* number of handle() calls in one behaviour
MaxQueued == 3       \* the same, in the behaviours of SpecOrder

\* ------------------------------------------------------- value universes
\* An optional value is a sequence: <<>> when undefined, <<v>> when set.
None == <<>>
Some(v) == <<v>>
Undefined == "undefined"
Urls == {"/a", "/b"}
\* the requests that arrive: method() and url() of route.request()
Requests ==
  {[method |-> "GET", url |-> "/a"], [method |-> "POST", url |-> "/a"],
   [method |-> "POST", url |-> "/b"]}
ActionKinds == {"abort", "continue", "fulfill", "fallback"}
ArgValues == {Undefined, "v"}
Ids == 1..MaxRequests
AllIds == Ids \cup (1..MaxQueued)
Unsettled == <<>>
NoError == <<>>

\* RouteControllerOptions: every field is optional; 0 is a legal number
RouteControllerOptions ==
  [timeout : {None, Some(0), Some(1), Some(25)},
   method : {None, Some("POST")},
   match : {None, Some("/a")},
   expectedRequests : {None, Some(0), Some(1)}]

\* RequestSelector: omitted, a number, or a predicate over the request
NoSelector == [type |-> "omitted", index |-> 0, url |-> ""]
IndexSelector(i) == [type |-> "number", index |-> i, url |-> ""]
UrlSelector(u) == [type |-> "function", index |-> 0, url |-> u]
RequestSelector ==
  {NoSelector} \cup {IndexSelector(i) : i \in (-1)..MaxRequests}
               \cup {UrlSelector(u) : u \in Urls}

VARIABLES
  config,           \* the constructor argument, never reassigned
  pendingRequests,  \* this.pendingRequests: sequence of record ids, oldest first
  timeoutIds,       \* key set of this.timeoutIds (record -> its timer)
  route,            \* id -> the request behind the route passed to handle()
  settled,          \* id -> state of actionPromise: Unsettled or <<kind, args>>
  pc,               \* id -> position of the handle() call
  microtasks,       \* continuations of handle() calls queued to run
  timer,            \* id -> state of the setTimeout timer of the record
  age,              \* id -> time elapsed since the timer of the record was set
  calls,            \* id -> sequence of <<kind, args>> invoked on the route
  thrown,           \* id -> the error handle() raised, or NoError
  nextId,           \* id of the next handle() call
  lastOp,           \* the step just taken and what it returned
  by,               \* id -> who supplied the decision that settled the promise
  disposedTimers,   \* ids whose timer was scheduled when dispose() ran
  abandoned,        \* ids that were in the queue when dispose() ran
  waiter            \* the waitForPending() call in progress, if any

vars == <<config, pendingRequests, timeoutIds, route, settled, pc, microtasks,
          timer, age, calls, thrown, nextId, lastOp, by,
          disposedTimers, abandoned, waiter>>

\* the handle() calls a behaviour has room for
Records == DOMAIN pc

\* ------------------------------------------------------------- helpers
NoRequest == [method |-> "", url |-> ""]

Op(name, target, ok, count) ==
  [op |-> name, target |-> target, ok |-> ok, count |-> count]

\* what lastOp holds after a step that is no call of the test code
Event == Op("event", 0, TRUE, 0)

\* the predicate (request) => request.url() === u
UrlIs(u, req) == req.url = u

\* Array.prototype.indexOf on the queue; 0 when absent
RECURSIVE indexOf(_, _)
indexOf(q, id) ==
  IF q = <<>> THEN 0
  ELSE IF Head(q) = id THEN 1
  ELSE LET r == indexOf(Tail(q), id) IN IF r = 0 THEN 0 ELSE r + 1

\* a resumption that removes the oldest record, whichever record resumed
spliceHead(q, id) == IF q = <<>> THEN q ELSE Tail(q)

\* a resumption that leaves the record in the queue
spliceSkipped(q, id) == q

\* a removal that fills the hole with the last record of the queue
spliceSwap(q, id) ==
  LET i == indexOf(q, id) IN
  IF i = 0 THEN q
  ELSE IF i = Len(q) THEN SubSeq(q, 1, i - 1)
  ELSE SubSeq(q, 1, i - 1) \o <<q[Len(q)]>> \o SubSeq(q, i + 1, Len(q) - 1)

\* lines 140-143: remove the record from the queue when it is there
splice(q, id) ==
  LET i == indexOf(q, id) IN
  IF i > 0 THEN SubSeq(q, 1, i - 1) \o SubSeq(q, i + 1, Len(q)) ELSE q

\* a search that returns the newest record satisfying the predicate
findLast(q, u) ==
  LET I == {i \in 1..Len(q) : UrlIs(u, route[q[i]])} IN
  IF I = {} THEN 0 ELSE q[CHOOSE i \in I : \A j \in I : j <= i]

\* Array.prototype.find with the selector predicate; 0 when nothing matches
RECURSIVE find(_, _)
find(q, u) ==
  IF q = <<>> THEN 0
  ELSE IF UrlIs(u, route[Head(q)]) THEN Head(q)
  ELSE find(Tail(q), u)

\* a findRequest that counts a negative index from the end of the queue
findRequestAt(selector) ==
  LET sel == IF selector.type = "omitted" THEN IndexSelector(0) ELSE selector
      n == Len(pendingRequests) IN
  IF sel.type = "number"
    THEN IF sel.index + 1 \in 1..n THEN pendingRequests[sel.index + 1]
         ELSE IF sel.index < 0 /\ n + sel.index + 1 \in 1..n
           THEN pendingRequests[n + sel.index + 1] ELSE 0
    ELSE find(pendingRequests, sel.url)

\* a findRequest that counts the records from 1
findRequestOneBased(selector) ==
  IF selector.type = "omitted"
    THEN IF Len(pendingRequests) > 0 THEN pendingRequests[1] ELSE 0
  ELSE IF selector.type = "number"
    THEN IF selector.index \in 1..Len(pendingRequests)
           THEN pendingRequests[selector.index] ELSE 0
  ELSE find(pendingRequests, selector.url)

\* a findRequest whose default is the newest record
findRequestNewest(selector) ==
  IF selector.type = "omitted"
    THEN IF Len(pendingRequests) > 0
           THEN pendingRequests[Len(pendingRequests)] ELSE 0
  ELSE IF selector.type = "number"
    THEN IF selector.index + 1 \in 1..Len(pendingRequests)
           THEN pendingRequests[selector.index + 1] ELSE 0
  ELSE find(pendingRequests, selector.url)

\* findRequest: the record a selector designates, 0 for undefined
findRequest(selector) ==
  LET sel == IF selector.type = "omitted" THEN IndexSelector(0) ELSE selector IN
  IF sel.type = "number"
    THEN IF sel.index + 1 \in 1..Len(pendingRequests)
           THEN pendingRequests[sel.index + 1] ELSE 0
    ELSE find(pendingRequests, sel.url)

\* a resolver whose last call wins
resolveLastWins(s, id, action) == [s EXCEPT ![id] = action]

\* Promise resolve function: the first call settles, later calls do nothing
resolve(s, id, action) ==
  IF s[id] = Unsettled THEN [s EXCEPT ![id] = action] ELSE s

\* a resolver that wakes the awaiting handle() on every call
wakeEveryCall(mt, s, id) == Append(mt, id)

\* settling the promise queues the continuation of the awaiting handle()
wake(mt, s, id) ==
  IF s[id] = Unsettled THEN Append(mt, id) ELSE mt

\* a bulk decision that also reaches the records enqueued later
resolveAllEver(s, snapshot, action) ==
  [id \in DOMAIN s |-> IF s[id] = Unsettled THEN action ELSE s[id]]

\* resolve each record of a snapshot in turn, with the same action
RECURSIVE resolveAll(_, _, _)
resolveAll(s, snapshot, action) ==
  IF snapshot = <<>> THEN s
  ELSE resolveAll(resolve(s, Head(snapshot), action), Tail(snapshot), action)

RECURSIVE wakeAll(_, _, _)
wakeAll(mt, s, snapshot) ==
  IF snapshot = <<>> THEN mt
  ELSE wakeAll(wake(mt, s, Head(snapshot)), s, Tail(snapshot))

\* the limit compared with > in place of >=
handleOutcomeStrictLimit(req) ==
  IF config.method # None /\ req.method # config.method[1] THEN "continue"
  ELSE IF config.match # None /\ ~UrlIs(config.match[1], req) THEN "continue"
  ELSE IF /\ config.expectedRequests # None
          /\ Len(pendingRequests) > config.expectedRequests[1] THEN "throw"
  ELSE "enqueue"

\* the limit applied to the number of requests handled so far
handleOutcomeCumulative(req) ==
  IF config.method # None /\ req.method # config.method[1] THEN "continue"
  ELSE IF config.match # None /\ ~UrlIs(config.match[1], req) THEN "continue"
  ELSE IF /\ config.expectedRequests # None
          /\ nextId - 1 >= config.expectedRequests[1] THEN "throw"
  ELSE "enqueue"

\* the match function ignored
handleOutcomeNoMatch(req) ==
  IF config.method # None /\ req.method # config.method[1] THEN "continue"
  ELSE IF /\ config.expectedRequests # None
          /\ Len(pendingRequests) >= config.expectedRequests[1] THEN "throw"
  ELSE "enqueue"

\* the limit checked before the filters
handleOutcomeLimitFirst(req) ==
  IF /\ config.expectedRequests # None
     /\ Len(pendingRequests) >= config.expectedRequests[1] THEN "throw"
  ELSE IF config.method # None /\ req.method # config.method[1] THEN "continue"
  ELSE IF config.match # None /\ ~UrlIs(config.match[1], req) THEN "continue"
  ELSE "enqueue"

\* a limit tested for truthiness, so that a limit of 0 is no limit
handleOutcomeLimitTruthy(req) ==
  IF config.method # None /\ req.method # config.method[1] THEN "continue"
  ELSE IF config.match # None /\ ~UrlIs(config.match[1], req) THEN "continue"
  ELSE IF /\ config.expectedRequests # None
          /\ config.expectedRequests[1] # 0
          /\ Len(pendingRequests) >= config.expectedRequests[1] THEN "throw"
  ELSE "enqueue"

\* lines 85-107: what handle() does with a request before enqueueing it
handleOutcome(req) ==
  IF config.method # None /\ req.method # config.method[1] THEN "continue"
  ELSE IF config.match # None /\ ~UrlIs(config.match[1], req) THEN "continue"
  ELSE IF /\ config.expectedRequests # None
          /\ Len(pendingRequests) >= config.expectedRequests[1] THEN "throw"
  ELSE "enqueue"

\* line 122: if (this.config?.timeout), a truthiness test
timeoutConfigured == config.timeout # None /\ config.timeout[1] # 0

\* a resumption that leaves the timer running
cleanUpTimeoutSkipped(tm, id) == tm

\* lines 133-137: the timer state after the clean-up on resumption
cleanUpTimeout(tm, id) ==
  IF id \in timeoutIds THEN [tm EXCEPT ![id] = "cleared"] ELSE tm

\* a dispose() that marks every timer ever set as cancelled
clearAllTimeoutsEverSet(tm) ==
  [id \in DOMAIN tm |-> IF tm[id] # "none" THEN "cleared" ELSE tm[id]]

\* a dispose() that empties the map without clearing the timers
clearAllTimeoutsSkipped(tm) == tm

\* lines 298-300: clearTimeout on every value of the timer map
clearAllTimeouts(tm) ==
  [id \in DOMAIN tm |-> IF id \in timeoutIds /\ tm[id] = "armed" THEN "cleared" ELSE tm[id]]

\* an argument list that always holds the argument, even when it is undefined
argsOfAlways(kind, arg) == <<arg>>

\* the argument list a targeted operation builds from its optional argument
argsOf(kind, arg) ==
  IF kind = "fulfill" THEN <<arg>>
  ELSE IF arg # Undefined THEN <<arg>> ELSE <<>>

\* The callback of a timer is a macrotask: it starts with no microtask queued,
\* and the continuation it wakes runs before any other code gets a turn.
callerMayRun ==
  \A i \in 1..Len(microtasks) : by[microtasks[i]] # "timeout"

\* a timer callback that aborts
timeoutActionAbort == <<"abort", <<>>>>

\* the action the timer callback supplies (line 125)
timeoutAction == <<"continue", <<>>>>

\* getters (lines 266-275)
pendingCount == Len(pendingRequests)
hasPending == Len(pendingRequests) > 0

\* the delay of the polling timer of waitForPending, in ms (line 285)
PollInterval == 50

\* the timeout arguments of waitForPending, in ms: none, less than one
\* polling interval, more than one
WaitTimeouts == {0, 20, 60}

\* the instants at which the model lets something happen are 25 ms apart
TimeSteps == {25}

\* no waitForPending() call has been made
NoWaiter ==
  [state |-> "idle", timeout |-> 0, elapsed |-> 0, slept |-> 0,
   arrived |-> FALSE, error |-> NoError]

\* the error of waitForPending, whose message carries the timeout (line 289)
NoPendingRequest(timeout) == <<"No pending request after", timeout, "ms">>

\* history: a request is enqueued while a waitForPending(ms) call is waiting
\* and ms has not yet elapsed since the call
observeArrival(w) ==
  IF w.state = "sleeping" /\ w.elapsed < w.timeout
    THEN [w EXCEPT !.arrived = TRUE] ELSE w

\* a waitForPending that polls until a request is pending, whatever the time
waitOutcomeNoDeadline(pending, elapsed, timeout) ==
  IF ~pending THEN "sleep" ELSE "resolve"

\* a waitForPending that sleeps once before its first test of the queue
waitOutcomeSleepFirst(pending, elapsed, timeout) ==
  IF elapsed = 0 \/ (~pending /\ elapsed < timeout) THEN "sleep"
  ELSE IF ~pending THEN "reject"
  ELSE "resolve"

\* waitForPending from a test of its loop condition on: "sleep" when the loop
\* body runs, else the result of the final check (lines 284-291)
waitOutcome(pending, elapsed, timeout) ==
  IF ~pending /\ elapsed < timeout THEN "sleep"
  ELSE IF ~pending THEN "reject"
  ELSE "resolve"

\* the state of the waitForPending() call after an outcome
waiterAfter(w, outcome) ==
  [w EXCEPT !.state = CASE outcome = "sleep" -> "sleeping"
                        [] outcome = "reject" -> "rejected"
                        [] OTHER -> "resolved",
            !.slept = 0,
            !.error = IF outcome = "reject"
                        THEN NoPendingRequest(w.timeout) ELSE NoError]

\* ----------------------------------------------------------------- Init
\* the state after construction, with room for the handle() calls ids
InitOver(ids) ==
  /\ config \in RouteControllerOptions
  /\ pendingRequests = <<>>
  /\ timeoutIds = {}
  /\ route = [id \in ids |-> NoRequest]
  /\ settled = [id \in ids |-> Unsettled]
  /\ pc = [id \in ids |-> "unused"]
  /\ microtasks = <<>>
  /\ timer = [id \in ids |-> "none"]
  /\ age = [id \in ids |-> 0]
  /\ calls = [id \in ids |-> <<>>]
  /\ thrown = [id \in ids |-> NoError]
  /\ nextId = 1
  /\ lastOp = Op("new", 0, TRUE, 0)
  /\ by = [id \in ids |-> "none"]
  /\ disposedTimers = {}
  /\ abandoned = {}
  /\ waiter = NoWaiter

Init == InitOver(Ids)

\* -------------------------------------------------------------- actions
\* handle(route), up to its first await (lines 84-130)
Handle(req) ==
  /\ nextId \in Records
  /\ callerMayRun
  /\ LET id == nextId
         outcome == handleOutcome(req)
     IN
     /\ nextId' = nextId + 1
     /\ route' = [route EXCEPT ![id] = req]
     /\ lastOp' = Op("handle", id, outcome # "throw", 0)
     /\ CASE outcome = "continue" ->
               /\ calls' = [calls EXCEPT ![id] = Append(@, <<"continue", <<>>>>)]
               /\ pc' = [pc EXCEPT ![id] = "bypass"]
               /\ UNCHANGED <<pendingRequests, timeoutIds, timer, thrown>>
          [] outcome = "throw" ->
               /\ thrown' = [thrown EXCEPT ![id] =
                    [limit |-> config.expectedRequests[1],
                     pending |-> Len(pendingRequests)]]
               /\ pc' = [pc EXCEPT ![id] = "thrown"]
               /\ UNCHANGED <<pendingRequests, timeoutIds, timer, calls>>
          [] OTHER ->
               /\ pendingRequests' = Append(pendingRequests, id)
               /\ pc' = [pc EXCEPT ![id] = "suspended"]
               /\ IF timeoutConfigured
                    THEN /\ timer' = [timer EXCEPT ![id] = "armed"]
                         /\ timeoutIds' = timeoutIds \cup {id}
                    ELSE UNCHANGED <<timer, timeoutIds>>
               /\ UNCHANGED <<calls, thrown>>
  /\ waiter' = IF handleOutcome(req) = "enqueue"
                  THEN observeArrival(waiter) ELSE waiter
  /\ UNCHANGED <<config, settled, microtasks, age, by, disposedTimers,
                 abandoned>>

\* the rest of handle() once actionPromise is settled (lines 130-158), up to
\* the await of the route action
Resume ==
  /\ microtasks # <<>>
  /\ LET id == Head(microtasks) IN
     /\ microtasks' = Tail(microtasks)
     /\ timer' = cleanUpTimeout(timer, id)
     /\ timeoutIds' = timeoutIds \ {id}
     /\ pendingRequests' = splice(pendingRequests, id)
     /\ calls' = [calls EXCEPT ![id] = Append(@, settled[id])]
     /\ pc' = [pc EXCEPT ![id] = "applying"]
     /\ lastOp' = Event
  /\ UNCHANGED <<config, route, settled, age, thrown, nextId, by,
                 disposedTimers, abandoned, waiter>>

\* the awaited route action completes and handle() returns
ActionComplete(id) ==
  /\ id \in Records
  /\ pc[id] \in {"applying", "bypass"}
  /\ pc' = [pc EXCEPT ![id] = "returned"]
  /\ lastOp' = Event
  /\ UNCHANGED <<config, pendingRequests, timeoutIds, route, settled, microtasks,
                 timer, age, calls, thrown, nextId, by,
                 disposedTimers, abandoned, waiter>>

\* the awaited route action rejects and handle() rejects with its error
ActionFail(id) ==
  /\ id \in Records
  /\ pc[id] \in {"applying", "bypass"}
  /\ pc' = [pc EXCEPT ![id] = "failed"]
  /\ lastOp' = Event
  /\ UNCHANGED <<config, pendingRequests, timeoutIds, route, settled, microtasks,
                 timer, age, calls, thrown, nextId, by,
                 disposedTimers, abandoned, waiter>>

\* a control operation that takes the record out of the queue itself
ControlEager(kind, arg, selector) ==
  /\ callerMayRun
  /\ LET id == findRequest(selector) IN
     IF id # 0
       THEN /\ settled' = resolve(settled, id, <<kind, argsOf(kind, arg)>>)
            /\ microtasks' = wake(microtasks, settled, id)
            /\ by' = IF settled[id] = Unsettled
                       THEN [by EXCEPT ![id] = "manual"] ELSE by
            /\ pendingRequests' = splice(pendingRequests, id)
            /\ lastOp' = Op(kind, id, TRUE, 0)
       ELSE /\ lastOp' = Op(kind, 0, FALSE, 0)
            /\ UNCHANGED <<settled, microtasks, by, pendingRequests>>
  /\ UNCHANGED <<config, timeoutIds, route, pc, timer, age,
                 calls, thrown, nextId, disposedTimers, abandoned,
                 waiter>>

\* abort / continue / fulfill / fallback (lines 167-237)
Control(kind, arg, selector) ==
  /\ callerMayRun
  /\ LET id == findRequest(selector) IN
     IF id # 0
       THEN /\ settled' = resolve(settled, id, <<kind, argsOf(kind, arg)>>)
            /\ microtasks' = wake(microtasks, settled, id)
            /\ by' = IF settled[id] = Unsettled
                       THEN [by EXCEPT ![id] = "manual"] ELSE by
            /\ lastOp' = Op(kind, id, TRUE, 0)
       ELSE /\ lastOp' = Op(kind, 0, FALSE, 0)
            /\ UNCHANGED <<settled, microtasks, by>>
  /\ UNCHANGED <<config, pendingRequests, timeoutIds, route, pc, timer, age,
                 calls, thrown, nextId, disposedTimers, abandoned,
                 waiter>>

\* the number of records a bulk operation resolved for the first time
countResolved ==
  Cardinality({id \in Records : /\ indexOf(pendingRequests, id) > 0
                            /\ settled[id] = Unsettled})

\* the number a bulk operation returns, read before its loop (lines 244, 256)
count == Len(pendingRequests)

\* abortAll / continueAll (lines 243-261)
Bulk(kind) ==
  /\ callerMayRun
  /\ settled' = resolveAll(settled, pendingRequests, <<kind, <<>>>>)
  /\ microtasks' = wakeAll(microtasks, settled, pendingRequests)
  /\ by' = [id \in Records |->
              IF indexOf(pendingRequests, id) > 0 /\ settled[id] = Unsettled
                THEN "manual" ELSE by[id]]
  /\ lastOp' = Op(kind \o "All", 0, TRUE, count)
  /\ UNCHANGED <<config, pendingRequests, timeoutIds, route, pc, timer, age,
                 calls, thrown, nextId, disposedTimers, abandoned,
                 waiter>>

\* a timer that never becomes due
dueNever(id) == FALSE

\* the timer of a record is due once the configured delay has elapsed
due(id) == timer[id] = "armed" /\ age[id] >= config.timeout[1]

\* the setTimeout callback of a record (lines 123-126): a macrotask
TimerFire(id) ==
  /\ id \in Records
  /\ microtasks = <<>>
  /\ timer[id] = "armed"
  /\ due(id)
  /\ timer' = [timer EXCEPT ![id] = "fired"]
  /\ timeoutIds' = timeoutIds \ {id}
  /\ settled' = resolve(settled, id, timeoutAction)
  /\ microtasks' = wake(microtasks, settled, id)
  /\ by' = IF settled[id] = Unsettled THEN [by EXCEPT ![id] = "timeout"] ELSE by
  /\ lastOp' = Event
  /\ UNCHANGED <<config, pendingRequests, route, pc, age, calls, thrown,
                 nextId, disposedTimers, abandoned, waiter>>

\* dispose() (lines 297-303)
Dispose ==
  /\ callerMayRun
  /\ timer' = clearAllTimeouts(timer)
  /\ timeoutIds' = {}
  /\ pendingRequests' = <<>>
  /\ disposedTimers' = disposedTimers \cup {id \in Records : timer[id] = "armed"}
  /\ abandoned' = abandoned \cup {id \in Records : indexOf(pendingRequests, id) > 0}
  /\ lastOp' = Op("dispose", 0, TRUE, 0)
  /\ UNCHANGED <<config, route, settled, pc, microtasks, age, calls, thrown,
                 nextId, by, waiter>>

\* one unit of time passes: only when no microtask is queued and no timer is
\* already due (the event loop runs both before it waits any longer)
Tick ==
  /\ microtasks = <<>>
  /\ \A id \in Records : ~due(id)
  /\ \E id \in Records : timer[id] \in {"armed", "fired"} /\ age[id] <= config.timeout[1]
  /\ age' = [id \in Records |->
               IF timer[id] \in {"armed", "fired"} /\ age[id] <= config.timeout[1]
                 THEN age[id] + 1 ELSE age[id]]
  /\ lastOp' = Event
  /\ UNCHANGED <<config, pendingRequests, timeoutIds, route, settled, pc,
                 microtasks, timer, calls, thrown, nextId, by, disposedTimers,
                 abandoned, waiter>>

\* waitForPending(timeout), up to its first await or, when the loop body
\* does not run, to its end (lines 282-291)
WaitForPending(timeout) ==
  /\ callerMayRun
  /\ waiter.state # "sleeping"
  /\ waiter' = waiterAfter([NoWaiter EXCEPT !.timeout = timeout],
                           waitOutcome(hasPending, 0, timeout))
  /\ lastOp' = Op("waitForPending", 0, TRUE, 0)
  /\ UNCHANGED <<config, pendingRequests, timeoutIds, route, settled, pc,
                 microtasks, timer, age, calls, thrown, nextId, by,
                 disposedTimers, abandoned>>

\* the polling timer of waitForPending fires and the loop condition is
\* tested again (lines 284-291): a macrotask, then its continuation
Poll ==
  /\ microtasks = <<>>
  /\ waiter.state = "sleeping"
  /\ waiter.slept >= PollInterval
  /\ waiter' = waiterAfter(waiter,
                           waitOutcome(hasPending, waiter.elapsed, waiter.timeout))
  /\ lastOp' = Event
  /\ UNCHANGED <<config, pendingRequests, timeoutIds, route, settled, pc,
                 microtasks, timer, age, calls, thrown, nextId, by,
                 disposedTimers, abandoned>>

\* d ms pass: only when no microtask is queued, and not beyond the instant
\* at which a timer is due
Advance(d) ==
  /\ microtasks = <<>>
  /\ \A id \in Records : timer[id] = "armed" => age[id] + d <= config.timeout[1]
  /\ waiter.state = "sleeping" => waiter.slept + d <= PollInterval
  /\ \/ waiter.state = "sleeping"
     \/ \E id \in Records :
          timer[id] \in {"armed", "fired"} /\ age[id] <= config.timeout[1]
  /\ age' = [id \in Records |->
               IF timer[id] \in {"armed", "fired"} /\ age[id] <= config.timeout[1]
                 THEN age[id] + d ELSE age[id]]
  /\ waiter' = IF waiter.state = "sleeping"
                 THEN [waiter EXCEPT !.elapsed = @ + d, !.slept = @ + d]
                 ELSE waiter
  /\ lastOp' = Event
  /\ UNCHANGED <<config, pendingRequests, timeoutIds, route, settled, pc,
                 microtasks, timer, calls, thrown, nextId, by, disposedTimers,
                 abandoned>>

\* the steps of the controller, time apart
ControllerNext(requests, kinds, args, selectors) ==
  \/ \E req \in requests : Handle(req)
  \/ Resume
  \/ \E id \in AllIds : ActionComplete(id)
  \/ \E id \in AllIds : ActionFail(id)
  \/ \E kind \in kinds, arg \in args, selector \in selectors :
       Control(kind, arg, selector)
  \/ \E kind \in {"abort", "continue"} : Bulk(kind)
  \/ \E id \in AllIds : TimerFire(id)
  \/ Dispose

NextOf(requests, kinds, args, selectors) ==
  \/ ControllerNext(requests, kinds, args, selectors)
  \/ Tick

Options(t, m, f, e) ==
  [timeout |-> t, method |-> m, match |-> f, expectedRequests |-> e]

\* The queue, the resolvers and the timers: every request is enqueued, with and
\* without a timeout; all four operations, every selector.
InitQueue ==
  /\ Init
  /\ config \in {Options(t, None, None, None) : t \in {None, Some(1)}}

Next ==
  NextOf({r \in Requests : r.method = "POST"}, ActionKinds, {Undefined},
         RequestSelector)

Spec == InitQueue /\ [][Next]_vars

\* The filters and the expected-request limit: every filter and limit, no
\* timeout, a timeout of 0 and one of 1 ms; every request; the records are
\* resolved oldest first.
InitHandle ==
  /\ Init
  /\ config.timeout \in {None, Some(0), Some(1)}

NextHandle == NextOf(Requests, {"continue"}, {Undefined}, {NoSelector})

SpecHandle == InitHandle /\ [][NextHandle]_vars

\* ---------------------------------------------------------------- claims
Handled == 1..(nextId - 1)
InQueue(id) == indexOf(pendingRequests, id) > 0
Applied(id) == pc[id] \in {"applying", "returned", "failed"} /\ by[id] # "none"

\* C1: no route passed to handle() ever has more than one terminal action
\* (abort, continue, fulfill, fallback) invoked on it, whatever targeted and
\* bulk operations, timer firings and dispose() calls occur.
C1_AtMostOneAction ==
  \A id \in Ids : Len(calls[id]) <= 1

\* one record auto-continued by its timer and another fulfilled by the test,
\* each with its single action
C1_Witness ==
  \E a, b \in Ids :
    /\ by[a] = "timeout" /\ calls[a] = <<timeoutAction>>
    /\ by[b] = "manual" /\ Len(calls[b]) = 1 /\ calls[b][1][1] = "fulfill"

\* C2: with two or more records pending, a selector-less operation that
\* directly follows an operation that resolved the oldest record targets a
\* different record than that one.
C2_BackToBackTargetsDiffer ==
  [][(/\ lastOp.op \in ActionKinds
      /\ lastOp.ok
      /\ Len(pendingRequests) >= 2
      /\ lastOp.target = pendingRequests[1]
      /\ \E kind \in ActionKinds : Control(kind, Undefined, NoSelector))
     => lastOp'.target # lastOp.target]_vars

\* C3: an operation that returned true has its own kind of decision in store
\* for the record it selected, and the action invoked on a route is the
\* decision in store for its record.
C3_TrueMeansApplied ==
  /\ (lastOp.op \in ActionKinds /\ lastOp.ok)
       => settled[lastOp.target][1] = lastOp.op
  /\ \A id \in Ids : Applied(id) => calls[id] = <<settled[id]>>

\* a request passes when no configured filter rejects it
PassesFilters(req) ==
  /\ config.method = None \/ req.method = config.method[1]
  /\ config.match = None \/ req.url = config.match[1]

LimitSet == config.expectedRequests # None
Limit == config.expectedRequests[1]
\* this step is a handle() call; the record it creates is nextId
HandleStep == nextId' = nextId + 1
ContinueNoOverrides == <<"continue", <<>>>>

\* C4: with expectedRequests = K, handle() of a request that passes the
\* filters while the queue holds K or more records fails with an error naming
\* K and the queue length; nothing is enqueued, no timer is set, no action is
\* invoked and the queue is unchanged.
C4_OverLimitRejected ==
  [][(/\ HandleStep
      /\ PassesFilters(route'[nextId])
      /\ LimitSet
      /\ pendingCount >= Limit)
     => /\ pc'[nextId] = "thrown"
        /\ thrown'[nextId] = [limit |-> Limit, pending |-> pendingCount]
        /\ UNCHANGED <<pendingRequests, timeoutIds, timer, calls, settled,
                       microtasks>>]_vars

\* a second matching request rejected with limit 1 while one record is pending
C4_Witness ==
  \E id \in Ids :
    /\ lastOp = Op("handle", id, FALSE, 0)
    /\ pc[id] = "thrown"
    /\ thrown[id] = [limit |-> 1, pending |-> 1]
    /\ pendingCount = 1

\* C5: with expectedRequests = K, once a pending record has been resolved and
\* its handle() has returned, leaving fewer than K records pending, the next
\* handle() of a request that passes the filters is accepted and enqueued.
C5_LimitIsOnPending ==
  [][(/\ HandleStep
      /\ PassesFilters(route'[nextId])
      /\ LimitSet
      /\ pendingCount < Limit
      /\ \E j \in Handled : pc[j] = "returned" /\ by[j] # "none")
     => /\ pc'[nextId] = "suspended"
        /\ pendingRequests' = Append(pendingRequests, nextId)
        /\ thrown'[nextId] = NoError]_vars

\* limit 1: the first record was continued and returned, the second is pending
C5_Witness ==
  \E j, id \in Ids :
    /\ config.expectedRequests = Some(1)
    /\ j < id
    /\ pc[j] = "returned" /\ by[j] = "manual"
    /\ lastOp = Op("handle", id, TRUE, 0)
    /\ pendingRequests = <<id>>

\* C6: under every filter configuration a request that fails the method or
\* the predicate filter is never in the queue, never awaits a decision, and
\* has exactly one continue action with no overrides invoked on its route.
C6_FilteredIsContinued ==
  \A id \in Handled :
    ~PassesFilters(route[id]) =>
      /\ ~InQueue(id)
      /\ pc[id] \in {"bypass", "returned", "failed"}
      /\ calls[id] = <<ContinueNoOverrides>>
      /\ settled[id] = Unsettled
      /\ timer[id] = "none"
      /\ thrown[id] = NoError

\* both filters set: one request failed the method, another only the predicate
C6_Witness ==
  /\ config.method # None /\ config.match # None
  /\ \E a, b \in Handled :
       /\ route[a].method # config.method[1]
       /\ route[b].method = config.method[1] /\ route[b].url # config.match[1]
       /\ pc[a] = "returned" /\ pc[b] = "returned"
       /\ calls[b] = <<ContinueNoOverrides>>

\* C7: a request that fails a filter never meets the limit: with the queue
\* already holding expectedRequests records or more, handle() raises no error,
\* continues the request and leaves the queue as it was.
C7_FilteredSkipsLimit ==
  [][(/\ HandleStep
      /\ ~PassesFilters(route'[nextId])
      /\ LimitSet
      /\ pendingCount >= Limit)
     => /\ pc'[nextId] = "bypass"
        /\ thrown'[nextId] = NoError
        /\ calls'[nextId] = <<ContinueNoOverrides>>
        /\ pendingRequests' = pendingRequests]_vars

\* limit 1 and one record pending: a non-matching request was continued
C7_Witness ==
  \E id \in Ids :
    /\ config.expectedRequests = Some(1)
    /\ pendingCount = 1
    /\ lastOp = Op("handle", id, TRUE, 0)
    /\ pc[id] = "bypass"

TimeoutSet == config.timeout # None /\ config.timeout[1] > 0
WasEnqueued(id) == pc[id] = "suspended" \/ Applied(id)

\* C8: with a timeout T > 0, a record still waiting in the queue has its timer
\* running and not overdue, and a record that got no decision from a control
\* operation and was not disposed has continue with no overrides invoked on
\* its route, and is out of the queue, once more than T has elapsed.
C8_TimeoutContinues ==
  TimeoutSet =>
    \A id \in Ids :
      /\ (pc[id] = "suspended" /\ InQueue(id) /\ settled[id] = Unsettled)
           => (timer[id] = "armed" /\ age[id] <= config.timeout[1])
      /\ (/\ WasEnqueued(id)
          /\ by[id] # "manual"
          /\ id \notin disposedTimers
          /\ age[id] > config.timeout[1])
           => (calls[id] = <<ContinueNoOverrides>> /\ ~InQueue(id))

\* a record continued by its timer, seen after its delay has passed
C8_Witness ==
  \E id \in Ids :
    /\ by[id] = "timeout"
    /\ age[id] > config.timeout[1]
    /\ calls[id] = <<ContinueNoOverrides>>
    /\ pc[id] = "returned"

\* C9: with a timeout configured, the timer of a record resolved by a control
\* operation never fires: it is cancelled when the record resumes, and the
\* only action on the route is the manual decision.
C9_ManualCancelsTimer ==
  TimeoutSet =>
    \A id \in Ids :
      by[id] = "manual" =>
        /\ timer[id] # "fired"
        /\ Applied(id) =>
             /\ timer[id] = "cleared"
             /\ id \notin timeoutIds
             /\ calls[id] = <<settled[id]>>

\* an aborted record, returned, with its timer cancelled on resumption
C9_Witness ==
  \E id \in Ids :
    /\ by[id] = "manual"
    /\ id \notin disposedTimers
    /\ pc[id] = "returned"
    /\ timer[id] = "cleared"
    /\ calls[id] = <<<<"abort", <<>>>>>>

\* C10: right after dispose() pendingCount is 0 and hasPending is false, and a
\* timer that was scheduled when dispose() ran never fires.
C10_DisposeClears ==
  /\ lastOp.op = "dispose" =>
       /\ pendingCount = 0
       /\ ~hasPending
       /\ \A id \in Ids : timer[id] # "armed"
  /\ \A id \in disposedTimers : timer[id] = "cleared"

\* dispose() has just run with two timers scheduled
C10_Witness ==
  /\ lastOp.op = "dispose"
  /\ Cardinality(disposedTimers) = 2

\* C11: no route action is ever invoked, at the dispose() call or later, for a
\* record that was in the queue when dispose() was called.
C11_AbandonedNeverApplied ==
  \A id \in abandoned : calls[id] = <<>>

BulkKinds == {"abort", "continue"}
BulkOps == {"abortAll", "continueAll"}
BulkStep == \E kind \in BulkKinds : Bulk(kind)

\* C12: abortAll() and continueAll() return the value pendingCount had
\* immediately before the call, which is 0 when the queue is empty.
C12_BulkReturnsPendingCount ==
  [][BulkStep =>
       /\ lastOp'.op \in BulkOps
       /\ lastOp'.count = pendingCount
       /\ ~hasPending => lastOp'.count = 0]_vars

\* continueAll() has returned 2 with a record in the queue that an earlier
\* abort() had already decided
C12_Witness ==
  /\ lastOp.op = "continueAll"
  /\ lastOp.count = 2
  /\ pendingCount = 2
  /\ \E id \in Ids : InQueue(id) /\ settled[id] = <<"abort", <<>>>>

\* C13: right after abortAll() (continueAll()) every record in the queue is
\* decided as abort (continue) with no arguments, and the action invoked on a
\* record's route is the one decided for it, once: the number returned is the
\* number of records aborted (continued).
C13_BulkDecidesEveryRecord ==
  /\ \A kind \in BulkKinds :
       lastOp.op = kind \o "All" =>
         \A id \in Ids : InQueue(id) => settled[id] = <<kind, <<>>>>
  /\ \A id \in Ids : Applied(id) => calls[id] = <<settled[id]>>

\* the microtask queue is always drained: a queued continuation eventually runs
SpecLive == Spec /\ WF_vars(Resume)

\* C14: after abortAll() or continueAll(), unless a new request arrives, the
\* suspended handle() calls resume and pendingCount becomes 0; pendingCount
\* then stays 0, since only an arriving request makes it grow.
C14_BulkDrainsQueue ==
  /\ \A n \in 1..(MaxRequests + 1) :
       [](lastOp.op \in BulkOps /\ nextId = n
            => <>(pendingCount = 0 \/ nextId # n))
  /\ [][pendingCount' > pendingCount => HandleStep]_vars

\* abortAll() has just resolved two undecided records: both continuations
\* are queued and both records are still in the queue
C14_Witness ==
  /\ lastOp = Op("abortAll", 0, TRUE, 2)
  /\ microtasks = <<1, 2>>
  /\ pendingRequests = <<1, 2>>
  /\ \A id \in Ids : settled[id] = <<"abort", <<>>>> /\ pc[id] = "suspended"

\* a control operation called with the selector s
ControlStep(s) ==
  /\ lastOp'.op \in ActionKinds
  /\ \E arg \in ArgValues : Control(lastOp'.op, arg, s)

\* all that a control step leaves alone: the queue, the timers, the routes,
\* every handle() position, and the decision of every record but the target
OthersUntouched(target) ==
  /\ UNCHANGED <<pendingRequests, timeoutIds, timer, calls, pc, route>>
  /\ \A id \in Ids \ {target} : settled'[id] = settled[id] /\ by'[id] = by[id]

\* C15: abort(), continue(), fulfill() and fallback() called without a selector
\* target the record at index 0 and leave every other record pending, with no
\* action on any route; when the handle() of the record at index 0 resumes,
\* the record that was second-oldest is at index 0.
C15_DefaultIsOldest ==
  [][/\ (ControlStep(NoSelector) /\ hasPending)
          => /\ lastOp'.ok
             /\ lastOp'.target = pendingRequests[1]
             /\ OthersUntouched(pendingRequests[1])
     /\ (Resume /\ Len(pendingRequests) >= 2
                /\ Head(microtasks) = pendingRequests[1])
          => pendingRequests'[1] = pendingRequests[2]]_vars

\* abort() has just run on a queue of two: the oldest is decided, the other
\* is undecided and still pending
C15_Witness ==
  /\ lastOp = Op("abort", 1, TRUE, 0)
  /\ pendingRequests = <<1, 2>>
  /\ settled[1] = <<"abort", <<>>>>
  /\ settled[2] = Unsettled
  /\ pc[2] = "suspended"

\* the first record of q, oldest first, whose request has url u; 0 when none
FirstWithUrl(q, u) ==
  LET I == {i \in 1..Len(q) : route[q[i]].url = u} IN
  IF I = {} THEN 0 ELSE q[CHOOSE i \in I : \A j \in I : i <= j]

\* C16: a control operation called with a predicate targets only the first
\* record, oldest to newest, whose request satisfies the predicate; every
\* other record stays in the queue, in the same order, with no decision
\* supplied and no action on its route.
C16_PredicateTargetsFirstMatch ==
  [][\A u \in Urls :
       (ControlStep(UrlSelector(u)) /\ FirstWithUrl(pendingRequests, u) # 0)
         => /\ lastOp'.ok
            /\ lastOp'.target = FirstWithUrl(pendingRequests, u)
            /\ OthersUntouched(FirstWithUrl(pendingRequests, u))]_vars

\* a predicate on /a has just resolved the second of two records, the older
\* record, on /b, being left undecided at index 0
C16_Witness ==
  /\ lastOp.op \in ActionKinds
  /\ lastOp.target = 2
  /\ pendingRequests = <<1, 2>>
  /\ route[1].url = "/b" /\ route[2].url = "/a"
  /\ settled[1] = Unsettled /\ settled[2] # Unsettled

\* the control operations under every selector, with two kinds of decision
NextSelect ==
  NextOf({r \in Requests : r.method = "POST"}, {"abort", "fulfill"},
         {Undefined}, RequestSelector)

SpecSelect == InitQueue /\ [][NextSelect]_vars

\* the selector s designates no record of the queue: the queue is empty, the
\* index is out of range, or no request satisfies the predicate
NoSuchRecord(s) ==
  CASE s.type = "omitted" -> pendingRequests = <<>>
    [] s.type = "number" -> s.index < 0 \/ s.index >= Len(pendingRequests)
    [] s.type = "function" ->
         \A i \in 1..Len(pendingRequests) : route[pendingRequests[i]].url # s.url

\* C17: a control operation whose selector finds no record returns false,
\* raises no error and changes nothing: the queue, the decisions, the timers
\* and the routes are as before the call.
C17_MissChangesNothing ==
  [][\A s \in RequestSelector :
       (NoSuchRecord(s) /\ ControlStep(s))
         => /\ lastOp' = Op(lastOp'.op, 0, FALSE, 0)
            /\ UNCHANGED <<config, pendingRequests, timeoutIds, route, settled,
                           pc, microtasks, timer, age, calls, thrown, nextId,
                           by, disposedTimers, abandoned, waiter>>]_vars

\* abort(-1) or abort(2) or a predicate matching nothing has just returned
\* false on a queue of two undecided records
C17_Witness ==
  /\ lastOp = Op("abort", 0, FALSE, 0)
  /\ pendingCount = 2
  /\ \A id \in Ids : settled[id] = Unsettled /\ pc[id] = "suspended"

\* waitForPending beside the queue: one kind of request, resolved oldest
\* first by continue(), with and without a timeout of 25 ms; time passes in
\* steps of 25 ms
InitWait ==
  /\ Init
  /\ config \in {Options(t, None, None, None) : t \in {None, Some(25)}}

NextWait ==
  \/ ControllerNext({r \in Requests : r.method = "POST" /\ r.url = "/a"},
                    {"continue"}, {Undefined}, {NoSelector})
  \/ \E timeout \in WaitTimeouts : WaitForPending(timeout)
  \/ Poll
  \/ \E d \in TimeSteps : Advance(d)

SpecWait == InitWait /\ [][NextWait]_vars

\* C18: waitForPending(ms) does not fail when a request was enqueued
\* by handle() before ms had elapsed since the call.
C18_ArrivalInTimeResolves ==
  waiter.state = "rejected" => ~waiter.arrived

\* C19: waitForPending(ms) called while the queue holds a record resolves in
\* the call itself, with no polling interval waited and the queue unchanged,
\* for every ms, 0 included.
C19_PendingResolvesAtOnce ==
  [][\A timeout \in WaitTimeouts :
       (hasPending /\ WaitForPending(timeout))
         => /\ waiter'.state = "resolved"
            /\ waiter'.elapsed = 0
            /\ waiter'.error = NoError
            /\ UNCHANGED <<pendingRequests, settled, microtasks, timer,
                           timeoutIds, calls>>]_vars

\* waitForPending(0) has just resolved on a queue of one undecided record
C19_Witness ==
  /\ lastOp.op = "waitForPending"
  /\ waiter.timeout = 0
  /\ waiter.state = "resolved"
  /\ waiter.elapsed = 0
  /\ pendingCount = 1
  /\ settled[pendingRequests[1]] = Unsettled

\* waitForPending tests the queue: in the call, and after each polling timer
TestStep == Poll \/ \E timeout \in WaitTimeouts : WaitForPending(timeout)

\* C20: waitForPending(ms) fails, with an error carrying ms, when no
\* request is enqueued between the call and the elapse of ms (so it resolves
\* only on a record present at the call or enqueued before ms had elapsed),
\* and it does not fail at a final check that finds the queue non-empty.
C20_FailsWithoutArrivalInTime ==
  [][TestStep =>
       /\ waiter'.state = "resolved" => waiter'.elapsed = 0 \/ waiter'.arrived
       /\ waiter'.state = "rejected" =>
            /\ waiter'.error = NoPendingRequest(waiter'.timeout)
            /\ ~hasPending]_vars

\* the handle() calls that were accepted and have not returned
NotReturned == {id \in Ids : pc[id] \in {"suspended", "applying"}}

\* the accepted handle() calls still waiting for a decision to resume them,
\* dispose() not having dropped their record
AwaitingDecision == {id \in Ids : pc[id] = "suspended" /\ id \notin abandoned}

\* C21 as stated: pendingCount is the number of handle() calls that were
\* accepted and have not yet returned.
C21_CountsCallsNotReturned ==
  pendingCount = Cardinality(NotReturned)

\* C21, amended: pendingCount is the number of accepted handle() calls that
\* have not yet resumed and whose record dispose() has not dropped; the queue
\* holds exactly those records, each once. A record leaves the count when its
\* handle() resumes, before the route action is invoked and the call returns.
C21_CountsCallsNotResumed ==
  /\ pendingCount = Cardinality(AwaitingDecision)
  /\ \A id \in Ids : InQueue(id) <=> id \in AwaitingDecision

\* a call that has resumed and is awaiting its route action is no longer
\* counted, while a younger one still is
C21_Witness ==
  /\ pc[1] = "applying"
  /\ pc[2] = "suspended"
  /\ pendingRequests = <<2>>
  /\ LimitSet

\* no filter and no limit are configured
Unfiltered ==
  /\ config.method = None
  /\ config.match = None
  /\ config.expectedRequests = None

\* the records whose decision has been applied to their route
AppliedRecords == {id \in Ids : Applied(id)}

\* C22: with no filter and no limit configured and dispose() never called,
\* after N handle() calls pendingCount is N minus the number of records whose
\* decision has been applied to its route; every call has added one record,
\* and every applied record has been removed.
C22_CountIsCallsMinusApplied ==
  (Unfiltered /\ abandoned = {}) =>
    /\ pendingCount = (nextId - 1) - Cardinality(AppliedRecords)
    /\ \A id \in Handled : InQueue(id) <=> ~Applied(id)

\* two calls, the first applied by its timer and the second still pending
C22_Witness ==
  /\ Unfiltered
  /\ abandoned = {}
  /\ nextId = 3
  /\ by[1] = "timeout" /\ pc[1] = "returned"
  /\ pendingRequests = <<2>>

\* C23: with expectedRequests = 0 every handle() of a request that passes the
\* filters fails with the capacity error, the first call on the empty queue
\* included, and nothing is ever enqueued.
C23_ZeroLimitRejectsAll ==
  config.expectedRequests = Some(0) =>
    /\ pendingRequests = <<>>
    /\ \A id \in Handled :
         /\ pc[id] # "suspended"
         /\ PassesFilters(route[id]) =>
              /\ pc[id] = "thrown"
              /\ thrown[id] = [limit |-> 0, pending |-> 0]
              /\ calls[id] = <<>>

\* with a limit of 0 and no filter, the first two calls have both failed
C23_Witness ==
  /\ config.expectedRequests = Some(0)
  /\ config.method = None /\ config.match = None
  /\ nextId = 3
  /\ \A id \in Ids : pc[id] = "thrown" /\ thrown[id].pending = 0

\* the step at which a resumed handle() invokes the action on its route
Invokes(id) == pc[id] = "suspended" /\ Len(calls'[id]) > Len(calls[id])

\* the step at which handle() returns
Returns(id) == pc[id] # "returned" /\ pc'[id] = "returned"

\* C24: when a suspended handle() resumes, its timer is cancelled and its
\* record removed before the action is invoked, so that at the invocation the
\* record is in neither the queue nor the timer map; handle() returns in a
\* later step, once the route action it awaits has completed.
C24_ResumeOrder ==
  [][\A id \in Ids :
       /\ Invokes(id) =>
            /\ indexOf(pendingRequests', id) = 0
            /\ id \notin timeoutIds'
            /\ timer'[id] # "armed"
            /\ pc'[id] = "applying"
       /\ Returns(id) =>
            /\ pc[id] \in {"applying", "bypass"}
            /\ Len(calls[id]) = 1
            /\ calls'[id] = calls[id]]_vars

\* an aborted record at the invocation of its action: timer cancelled, out
\* of the queue, handle() not yet returned, a younger record still pending
C24_Witness ==
  /\ pc[1] = "applying"
  /\ calls[1] = <<<<"abort", <<>>>>>>
  /\ timer[1] = "cleared"
  /\ 1 \notin timeoutIds
  /\ pendingRequests = <<2>>
  /\ timer[2] = "armed"

\* the arguments of the operations: one kind of request, resolved oldest
\* first, by every operation with and without its argument
NextArgs ==
  NextOf({r \in Requests : r.method = "POST" /\ r.url = "/a"}, ActionKinds,
         ArgValues, {NoSelector})

SpecArgs == InitQueue /\ [][NextArgs]_vars

\* the arguments the route operation is to receive for a targeted operation
\* called with arg: the response for fulfill, whose parameter is not
\* optional; else the argument when there is one, and none when it is omitted
ExpectedArgs(kind, arg) ==
  CASE kind = "fulfill" -> <<arg>>
    [] arg = Undefined -> <<>>
    [] OTHER -> <<arg>>

allButLastOp == <<config, pendingRequests, timeoutIds, route, settled, pc,
                  microtasks,
                  timer, age, calls, thrown, nextId, by, disposedTimers,
                  abandoned, waiter>>

\* C26: a decision supplied to a record that already has one is dropped: the
\* first decision stays, a targeted or bulk operation that finds only decided
\* records changes nothing, and the action a resuming handle() invokes, once,
\* is the first decision.
C26_ResolverSingleUse ==
  [][/\ \A id \in Ids :
          /\ settled[id] # Unsettled
               => settled'[id] = settled[id] /\ by'[id] = by[id]
          /\ Invokes(id) => calls[id] = <<>> /\ calls'[id] = <<settled[id]>>
     /\ (/\ lastOp'.op \in ActionKinds
         /\ lastOp'.ok
         /\ settled[lastOp'.target] # Unsettled) => UNCHANGED allButLastOp
     /\ (/\ lastOp'.op \in BulkOps
         /\ \A id \in Ids : InQueue(id) => settled[id] # Unsettled)
          => UNCHANGED allButLastOp]_vars

\* fulfill() has just been called on a record that continue() had decided
\* and that has not resumed yet: its decision is still continue
C26_Witness ==
  /\ lastOp = Op("fulfill", 1, TRUE, 0)
  /\ settled[1] = <<"continue", <<>>>>
  /\ pc[1] = "suspended"
  /\ microtasks = <<1>>

\* C27: dispose() called again, or on a controller whose queue is empty,
\* leaves the queue and the timer map empty, invokes no action on any route
\* and raises no error: it changes nothing.
C27_DisposeIdempotent ==
  [][(Dispose /\ ~hasPending)
       => /\ lastOp' = Op("dispose", 0, TRUE, 0)
          /\ pendingRequests' = <<>>
          /\ timeoutIds' = {}
          /\ calls' = calls
          /\ UNCHANGED allButLastOp]_vars

\* dispose() has just run on a controller all of whose requests had returned,
\* one of them continued by its timer
C27_Witness ==
  /\ lastOp.op = "dispose"
  /\ \A id \in Ids : pc[id] = "returned"
  /\ \E id \in Ids : timer[id] = "fired"
  /\ abandoned = {}

\* C28: whenever a timeout is configured, a duration of 0 included, every
\* record waiting in the queue for a decision has its auto-resolve scheduled;
\* a record on which the timer has fired is decided as continue with no
\* overrides unless it was decided earlier.
C28_EveryTimeoutSchedules ==
  config.timeout # None =>
    \A id \in Ids :
      /\ (InQueue(id) /\ settled[id] = Unsettled)
           => timer[id] = "armed" /\ id \in timeoutIds
      /\ timer[id] = "fired"
           => settled[id] # Unsettled
              /\ (by[id] = "timeout" => settled[id] = ContinueNoOverrides)

\* the records dispose() dropped while no decision had been supplied for them
Stuck == {id \in abandoned : settled[id] = Unsettled}

\* C29: a handle() call whose record was in the queue, undecided, when
\* dispose() ran stays suspended: no step supplies it a decision, selects it,
\* puts it back in the queue, invokes an action on its route or makes it
\* return.
C29_DisposedStaySuspended ==
  [][\A id \in Stuck :
       /\ settled'[id] = Unsettled
       /\ pc[id] = "suspended" /\ pc'[id] = "suspended"
       /\ calls'[id] = <<>>
       /\ indexOf(pendingRequests', id) = 0
       /\ timer'[id] # "armed"
       /\ lastOp'.op \in ActionKinds => lastOp'.target # id]_vars

\* a record dropped undecided with its timer cancelled is still suspended
\* after a later request has been aborted and has returned
C29_Witness ==
  /\ abandoned = {1}
  /\ settled[1] = Unsettled
  /\ pc[1] = "suspended"
  /\ timer[1] = "cleared"
  /\ pc[2] = "returned"
  /\ calls[2] = <<<<"abort", <<>>>>>>

\* C30: a bulk operation decides only the records in the queue when it is
\* called: a record enqueued afterwards, also while the calls the bulk
\* operation resolved are still resuming or awaiting their route action,
\* starts undecided and pending, and a decision reaches a record only from a
\* targeted or bulk operation called, or a timer fired, while the record is
\* in the queue.
C30_BulkSnapshot ==
  [][/\ (HandleStep /\ pc'[nextId] = "suspended")
          => /\ settled'[nextId] = Unsettled
             /\ indexOf(pendingRequests', nextId) = Len(pendingRequests')
             /\ microtasks' = microtasks
     /\ \A id \in Ids :
          (settled[id] = Unsettled /\ settled'[id] # Unsettled)
            => /\ InQueue(id)
               /\ \/ lastOp'.op \in ActionKinds /\ lastOp'.target = id
                  \/ lastOp'.op \in BulkOps
                  \/ TimerFire(id)]_vars

\* a request enqueued after a record was aborted is pending and undecided
\* while the aborted record's handle() is awaiting its route action
C30_Witness ==
  /\ pc[1] = "applying"
  /\ calls[1] = <<<<"abort", <<>>>>>>
  /\ pendingRequests = <<2>>
  /\ settled[2] = Unsettled
  /\ pc[2] = "suspended"
  /\ age[2] = 0

\* ---------------------------------------------------------------------------
\* The method-specific entry points of the earlier controller version
\* (get, post, put, delete, patch, head, connect, trace, options). That
\* version's handle() has no filter and no limit: it is Handle under a
\* configuration that sets nothing but the timeout.

EntryPoints ==
  {"get", "post", "put", "delete", "patch", "head", "connect", "trace",
   "options"}

\* the method literal each entry point passes to isMethodMatch
methodOf(entry) ==
  CASE entry = "get" -> "GET"
    [] entry = "post" -> "POST"
    [] entry = "put" -> "PUT"
    [] entry = "delete" -> "DELETE"
    [] entry = "patch" -> "PATCH"
    [] entry = "head" -> "HEAD"
    [] entry = "connect" -> "CONNECT"
    [] entry = "trace" -> "TRACE"
    [] entry = "options" -> "OPTIONS"

\* an isMethodMatch() that accepts every request
isMethodMatchAlways(req, method) == TRUE

\* route.request().method() === method
isMethodMatch(req, method) == req.method = method

\* controller.get(route) ... controller.options(route): continue the route
\* when the method differs, else the earlier handle(): push, arm the timer,
\* await the decision
MethodEntry(entry, req) ==
  /\ nextId \in Records
  /\ callerMayRun
  /\ LET id == nextId IN
     /\ nextId' = nextId + 1
     /\ route' = [route EXCEPT ![id] = req]
     /\ lastOp' = Op(entry, id, TRUE, 0)
     /\ IF ~isMethodMatch(req, methodOf(entry))
          THEN /\ calls' = [calls EXCEPT ![id] = Append(@, <<"continue", <<>>>>)]
               /\ pc' = [pc EXCEPT ![id] = "bypass"]
               /\ UNCHANGED <<pendingRequests, timeoutIds, timer, waiter>>
          ELSE /\ pendingRequests' = Append(pendingRequests, id)
               /\ pc' = [pc EXCEPT ![id] = "suspended"]
               /\ IF timeoutConfigured
                    THEN /\ timer' = [timer EXCEPT ![id] = "armed"]
                         /\ timeoutIds' = timeoutIds \cup {id}
                    ELSE UNCHANGED <<timer, timeoutIds>>
               /\ waiter' = observeArrival(waiter)
               /\ UNCHANGED calls
  /\ UNCHANGED <<config, settled, microtasks, age, thrown, by, disposedTimers,
                 abandoned>>

\* The entry points next to handle() and the control operations: GET and POST
\* requests through each of the nine entry points, with and without a timeout.
NextMethods ==
  \/ NextOf({r \in Requests : r.method = "POST" /\ r.url = "/a"},
            {"abort", "continue"}, {Undefined}, {NoSelector})
  \/ \E entry \in EntryPoints, req \in {r \in Requests : r.url = "/a"} :
       MethodEntry(entry, req)

SpecMethods == InitQueue /\ [][NextMethods]_vars

\* the records whose route was continued without being enqueued
Bypassed(id) ==
  id \in Handled /\ by[id] = "none" /\ pc[id] \in {"bypass", "returned", "failed"}

\* what a call through an entry point has done when it returns its promise
EntryEffect(entry, id) ==
  IF route'[id].method # methodOf(entry)
    THEN /\ calls'[id] = <<ContinueNoOverrides>>
         /\ pc'[id] = "bypass"
         /\ UNCHANGED <<pendingRequests, timeoutIds, timer>>
    ELSE /\ pendingRequests' = Append(pendingRequests, id)
         /\ pc'[id] = "suspended"
         /\ calls'[id] = <<>>
         /\ settled'[id] = Unsettled
         /\ timer' = IF timeoutConfigured
                       THEN [timer EXCEPT ![id] = "armed"] ELSE timer
         /\ timeoutIds' = IF timeoutConfigured
                            THEN timeoutIds \cup {id} ELSE timeoutIds

\* C31: through each method-specific entry point of the earlier version, a
\* request whose method differs from the entry point's has continue invoked
\* once on its route and is never enqueued, and a request whose method
\* matches is appended to the queue and suspended as by handle(), its timer
\* armed when a timeout is configured.
C31_EntryPointFilters ==
  /\ [][\A entry \in EntryPoints :
          (lastOp'.op = entry /\ HandleStep) => EntryEffect(entry, nextId)]_vars
  /\ [](\A id \in Ids :
          Bypassed(id) => calls[id] = <<ContinueNoOverrides>> /\ ~InQueue(id))

C31_Witness ==
  /\ lastOp.op = "get" /\ lastOp.target = 2
  /\ route[2].method = "GET" /\ pc[2] = "suspended" /\ InQueue(2)
  /\ route[1].method = "GET" /\ Bypassed(1) /\ pc[1] = "returned"

\* ---------------------------------------------------------------------------
\* The order of the queue, with room for a record to leave from between two
\* others.
InitOrder ==
  /\ InitOver(1..MaxQueued)
  /\ config \in {Options(t, None, None, None) : t \in {None, Some(1)}}

\* one request and one operation, called with an index: any record of the
\* queue can be decided next, and the index can be out of range
NextOrder ==
  NextOf({r \in Requests : r.method = "POST" /\ r.url = "/a"}, {"continue"},
         {Undefined}, {IndexSelector(i) : i \in (-1)..MaxQueued})

SpecOrder == InitOrder /\ [][NextOrder]_vars

\* the records of a queue
Members(q) == {q[i] : i \in 1..Len(q)}

\* the records of q that are in keep, in the order of q
Kept(q, keep) ==
  LET F[i \in 0..Len(q)] ==
        IF i = 0 THEN <<>>
        ELSE IF q[i] \in keep THEN Append(F[i - 1], q[i]) ELSE F[i - 1]
  IN F[Len(q)]

\* C32: the pending queue lists its records in the arrival order of their
\* handle() calls (the calls are numbered as they arrive): a new record is
\* appended at the tail, and a step that removes records, from any position,
\* leaves all the others in their relative order.
C32_QueueInArrivalOrder ==
  /\ [](\A i, j \in 1..Len(pendingRequests) :
          i < j => pendingRequests[i] < pendingRequests[j])
  /\ [][/\ (HandleStep /\ pc'[nextId] = "suspended")
             => pendingRequests' = Append(pendingRequests, nextId)
        /\ ~HandleStep
             => pendingRequests' =
                  Kept(pendingRequests, Members(pendingRequests'))]_vars

\* a record has left from between two others, which are still in order
C32_Witness ==
  /\ pendingRequests = <<1, 3>>
  /\ pc[2] = "returned"
  /\ lastOp = Event

\* the step is the continuation of the suspended handle() call of id
ResumeOf(id) ==
  /\ microtasks # <<>>
  /\ Head(microtasks) = id
  /\ pc[id] = "suspended"
  /\ pc'[id] = "applying"

\* C33: a targeted or bulk control operation leaves the queue, and so
\* pendingCount, the timer map and the timers as they were and invokes no
\* route action; a record leaves the queue only in the step in which its
\* suspended handle() call resumes (or when dispose() empties the queue).
C33_ControlOnlyDecides ==
  [][/\ lastOp'.op \in (ActionKinds \cup BulkOps)
          => UNCHANGED <<pendingRequests, timeoutIds, timer, calls, pc>>
     /\ \A id \in Ids :
          (InQueue(id) /\ indexOf(pendingRequests', id) = 0)
            => ResumeOf(id) \/ lastOp'.op = "dispose"]_vars

\* abort() has just returned true: its record is decided but still queued,
\* its timer still held, its route untouched
C33_Witness ==
  /\ lastOp.op = "abort" /\ lastOp.ok /\ lastOp.target = 1
  /\ settled[1] = <<"abort", <<>>>>
  /\ pendingRequests = <<1, 2>>
  /\ timeoutIds = {1, 2}
  /\ timer[1] = "armed"
  /\ calls[1] = <<>>
  /\ pc[1] = "suspended"

\* the number of records of the queue that arrived no later than id
Rank(id) == Cardinality({j \in Members(pendingRequests) : j <= id})

\* C34: a control operation called with index i targets the (i+1)-th oldest
\* record of the queue when 0 <= i < pendingCount, supplying its decision to
\* that record alone; for i >= pendingCount and for i < 0 it returns false
\* and changes nothing.
C34_IndexIsPositional ==
  [][\A i \in (-1)..MaxQueued :
       ControlStep(IndexSelector(i))
         => IF 0 <= i /\ i < pendingCount
              THEN /\ lastOp'.ok
                   /\ lastOp'.target = pendingRequests[i + 1]
                   /\ Rank(lastOp'.target) = i + 1
                   /\ settled'[lastOp'.target] # Unsettled
                   /\ \A id \in Records \ {lastOp'.target} :
                        settled'[id] = settled[id]
              ELSE /\ lastOp' = Op(lastOp'.op, 0, FALSE, 0)
                   /\ allButLastOp' = allButLastOp]_vars

\* an index has just missed a queue that holds two of three records, the
\* third having been decided through its index and continued
C34_Witness ==
  /\ lastOp = Op("continue", 0, FALSE, 0)
  /\ pendingRequests = <<1, 3>>
  /\ settled[1] = Unsettled /\ settled[3] = Unsettled
  /\ microtasks = <<>>
  /\ calls[2] = <<ContinueNoOverrides>>
  /\ by[2] = "manual"

\* ---------------------------------------------------------------------------
\* A timeout of 1 ms, with and without a limit; dispose() is never called and
\* every route action completes.
InitTimeout ==
  /\ Init
  /\ config \in {Options(Some(1), None, None, e) : e \in {None, Some(1)}}

NextTimeout ==
  \/ \E req \in {r \in Requests : r.method = "POST" /\ r.url = "/a"} :
       Handle(req)
  \/ Resume
  \/ \E id \in AllIds : ActionComplete(id)
  \/ Control("abort", Undefined, NoSelector)
  \/ \E kind \in {"abort", "continue"} : Bulk(kind)
  \/ \E id \in AllIds : TimerFire(id)
  \/ Tick

\* the event loop runs every queued continuation and every due timer, time
\* passes, and every route action completes
SpecTimeout ==
  /\ InitTimeout
  /\ [][NextTimeout]_vars
  /\ WF_vars(Resume)
  /\ WF_vars(Tick)
  /\ \A id \in AllIds : WF_vars(TimerFire(id)) /\ WF_vars(ActionComplete(id))

\* C35: with a timeout T > 0, dispose() never called and every route action
\* completing, every accepted handle() call eventually returns with exactly
\* one action invoked on its route, and every record in the queue eventually
\* leaves it, whether or not a control operation is ever called.
C35_EveryAcceptedCallReturns ==
  \A id \in Ids :
    /\ (pc[id] = "suspended") ~> (pc[id] = "returned" /\ Len(calls[id]) = 1)
    /\ InQueue(id) ~> ~InQueue(id)
    /\ [](pc[id] = "returned" => Len(calls[id]) = 1)

\* both calls have returned, the first continued by its timer and the second
\* aborted by a control operation
C35_Witness ==
  /\ pc[1] = "returned" /\ by[1] = "timeout"
  /\ calls[1] = <<ContinueNoOverrides>>
  /\ pc[2] = "returned" /\ by[2] = "manual"
  /\ calls[2] = <<<<"abort", <<>>>>>>

\* C36: every timer the controller holds, in its map or still scheduled,
\* belongs to a record that is in the pending queue, and with a timeout T > 0
\* every record of the queue that has no decision yet has its timer, in the
\* map and scheduled.
C36_TimersBelongToQueue ==
  /\ timeoutIds \subseteq Members(pendingRequests)
  /\ \A id \in Ids : timer[id] = "armed" => InQueue(id) /\ id \in timeoutIds
  /\ TimeoutSet =>
       \A id \in Ids :
         (InQueue(id) /\ settled[id] = Unsettled)
           => id \in timeoutIds /\ timer[id] = "armed"

\* the first record has been aborted and removed, its timer cancelled; the
\* second is in the queue, undecided, with the only timer left
C36_Witness ==
  /\ pc[1] = "applying" /\ by[1] = "manual" /\ timer[1] = "cleared"
  /\ pendingRequests = <<2>>
  /\ settled[2] = Unsettled
  /\ timeoutIds = {2}
  /\ timer[2] = "armed"

\* C37: with expectedRequests = K configured (a count: K >= 0), pendingCount
\* never exceeds K, whatever handle() calls, control operations, timeouts and
\* dispose() calls occur.
C37_PendingWithinLimit ==
  LimitSet => pendingCount <= Limit

\* limit 1: the first record left on its timeout, the second was then
\* accepted, and the queue is at the limit again
C37_Witness ==
  /\ config.expectedRequests = Some(1)
  /\ pc[1] = "returned" /\ by[1] = "timeout"
  /\ pendingRequests = <<2>>
  /\ pendingCount = Limit

\* the route action awaited by the resumed handle() call of id rejects
FailsResumed(id) == pc[id] = "applying" /\ pc'[id] = "failed"

\* C38: when the route action invoked by a resumed handle() call fails,
\* handle() fails; by then the record is out of the queue and its timer is
\* neither in the map nor scheduled; the failure changes nothing else, so
\* every other record is as it was; and no further action is ever invoked
\* on the route.
C38_FailureLeavesNothingStale ==
  /\ [][\A id \in Ids :
          FailsResumed(id)
            => /\ ~InQueue(id)
               /\ id \notin timeoutIds
               /\ timer[id] # "armed"
               /\ calls[id] = <<settled[id]>>
               /\ UNCHANGED <<config, pendingRequests, timeoutIds, route,
                              settled, microtasks, timer, age, calls, thrown,
                              nextId, by, disposedTimers, abandoned, waiter>>
               /\ \A j \in Ids \ {id} : pc'[j] = pc[j]]_vars
  /\ [](\A id \in Ids :
          pc[id] = "failed" => Len(calls[id]) = 1 /\ ~InQueue(id))

\* the abort of the first route has failed; the second record is pending,
\* undecided, with its timer running
C38_Witness ==
  /\ pc[1] = "failed" /\ by[1] = "manual"
  /\ calls[1] = <<<<"abort", <<>>>>>>
  /\ timer[1] = "cleared"
  /\ pendingRequests = <<2>>
  /\ settled[2] = Unsettled /\ pc[2] = "suspended"
  /\ timer[2] = "armed" /\ timeoutIds = {2}

\* the event loop runs every queued continuation and every due timer, the
\* polling timer included, and time passes
SpecWaitLive ==
  /\ SpecWait
  /\ WF_vars(Resume)
  /\ WF_vars(Poll)
  /\ \A d \in TimeSteps : WF_vars(Advance(d))
  /\ \A id \in AllIds : WF_vars(TimerFire(id))

\* the step is a step of waitForPending: the call, or one of its polls
WaitStep ==
  \/ lastOp'.op = "waitForPending"
  \/ /\ waiter.state = "sleeping"
     /\ waiter.slept >= PollInterval
     /\ waiter'.slept = 0

\* C39: every waitForPending(ms) call ends, resolved or failed with
\* NoPendingRequest, less than one poll interval after ms has elapsed since
\* the call, whatever handle(), control, bulk and dispose() steps and timeouts
\* interleave with its polls; and its steps change nothing of the controller.
C39_WaitTerminates ==
  /\ (waiter.state = "sleeping") ~> (waiter.state \in {"resolved", "rejected"})
  /\ [](/\ waiter.state = "sleeping"
             => /\ waiter.elapsed - waiter.slept < waiter.timeout
                /\ waiter.slept <= PollInterval
        /\ waiter.state # "idle"
             => waiter.elapsed < waiter.timeout + PollInterval
        /\ waiter.state = "rejected"
             => waiter.error = NoPendingRequest(waiter.timeout))
  /\ [][WaitStep =>
          UNCHANGED <<config, pendingRequests, timeoutIds, route, settled, pc,
                      microtasks, timer, age, calls, thrown, nextId, by,
                      disposedTimers, abandoned>>]_vars

\* waitForPending(60) has failed at its third test of the queue, 100 ms after
\* the call, after a request was enqueued and continued between two polls
C39_Witness ==
  /\ waiter.state = "rejected"
  /\ waiter.timeout = 60
  /\ waiter.elapsed = 100
  /\ pc[1] = "returned"
  /\ pendingRequests = <<>>
====
